---- MODULE Spec2Model ----
(***************************************************************************)
(* iprobe: a process-wide, initialize-once probe of the host's IP stack.   *)
(*                                                                         *)
(* The model follows src/src/lib.rs: the public functions ipv4(), ipv6(),  *)
(* ipv4_mapped_ipv6() and probe() read the static INIT: OnceLock<Probe>    *)
(* through get_or_init(probe_in); probe_in performs the socket system      *)
(* calls one at a time.  Every system call's outcome (Ok / Err) is chosen  *)
(* by the environment at the moment of the call.                           *)
(***************************************************************************)
EXTENDS Integers, Sequences, FiniteSets, TLC

(* ---------------------------------------------------------------- bounds *)

NumThreads == 2      \* threads of the process that call the public functions
MaxCalls == 2        \* public-function calls made by the whole process

Threads == 1..NumThreads

(* ------------------------------------------------------ program constants *)

None == "None"

\* lib.rs:13-16   const V6_PROBES: [(bool, bool); 2], pairs (is_ipv6, v6_only)
V6_PROBES_reversed == << <<FALSE, FALSE>>, <<TRUE, TRUE>> >>
V6_PROBES == << <<TRUE, TRUE>>, <<FALSE, FALSE>> >>

\* lib.rs:109     Ipv6Addr::LOCALHOST, the eight 16-bit segments of ::1
LOCALHOST == <<0, 0, 0, 0, 0, 0, 0, 1>>

\* lib.rs:113     Ipv6Addr::new(0, 0, 0, 0, 0, 0xffff, 0x7f00, 0x01)
MAPPED_LOOPBACK == <<0, 0, 0, 0, 0, 65535, 32512, 1>>

\* lib.rs:109, 114-116   SocketAddrV6::new(ip, 0, 0, 0): port, flowinfo, scope
SocketAddrV6(ip) == [ip |-> ip, port |-> 0, flowinfo |-> 0, scope_id |-> 0]

NoAddr == [ip |-> <<>>, port |-> 0, flowinfo |-> 0, scope_id |-> 0]

\* a local that holds no descriptor: not yet assigned, moved out, or an Err
NoSocket == [ok |-> FALSE, fd |-> None]

\* lib.rs:81-85   the record probe_in starts from
AllFalse == [ipv4 |-> FALSE, ipv6 |-> FALSE, ipv4_mapped_ipv6 |-> FALSE]

\* lib.rs:36-40   struct Probe
Probe == [ipv4 : BOOLEAN, ipv6 : BOOLEAN, ipv4_mapped_ipv6 : BOOLEAN]

\* the four public functions, lib.rs:19, 24, 30, 73
Functions == {"probe", "ipv4", "ipv6", "ipv4_mapped_ipv6"}

(* --------------------------------------------------------- pure functions *)

\* lib.rs:94-96   if ipv4_sock.is_ok() { caps.ipv4 = true; }
CheckIpv4_always(c, ok) == [c EXCEPT !.ipv4 = TRUE]
CheckIpv4(c, ok) == IF ok THEN [c EXCEPT !.ipv4 = TRUE] ELSE c

\* lib.rs:108-118 the bind address of a trial
BindAddr_localhost(is_ipv6) == SocketAddrV6(LOCALHOST)
BindAddr(is_ipv6) ==
  IF is_ipv6 THEN SocketAddrV6(LOCALHOST) ELSE SocketAddrV6(MAPPED_LOOPBACK)

\* lib.rs:123-129 if bind_result.is_ok() { if is_ipv6 {..} else {..} }
CheckBind_both(c, is_ipv6, ok) ==
  IF ok THEN [c EXCEPT !.ipv6 = TRUE, !.ipv4_mapped_ipv6 = TRUE] ELSE c
CheckBind(c, is_ipv6, ok) ==
  IF ok
    THEN IF is_ipv6 THEN [c EXCEPT !.ipv6 = TRUE]
                    ELSE [c EXCEPT !.ipv4_mapped_ipv6 = TRUE]
    ELSE c

\* lib.rs:103     if let Ok(sock) = sock { ... }: where a trial goes after socket()
AfterSocket6_early_return(ok) == IF ok THEN "setopt" ELSE "return"
AfterSocket6_unwrap(ok) == IF ok THEN "setopt" ELSE "panic"
AfterSocket6(ok) == IF ok THEN "setopt" ELSE "next"

\* lib.rs:20, 25, 31, 74: what a public function returns of the record
Project_swapped(f, p) ==
  CASE f = "probe" -> p
    [] f = "ipv4" -> p.ipv4
    [] f = "ipv6" -> p.ipv4_mapped_ipv6
    [] f = "ipv4_mapped_ipv6" -> p.ipv6
Project(f, p) ==
  CASE f = "probe" -> p
    [] f = "ipv4" -> p.ipv4
    [] f = "ipv6" -> p.ipv6
    [] f = "ipv4_mapped_ipv6" -> p.ipv4_mapped_ipv6

\* lib.rs:74      OnceLock::get_or_init: what a caller that did not find the
\* cell initialized does in each state of the cell's Once
OnceCall_no_cache(state) ==
  CASE state = "Incomplete" -> "run"
    [] state = "Running" -> "wait"
    [] state = "Complete" -> "run"
OnceCall_racy(state) ==
  CASE state = "Incomplete" -> "run"
    [] state = "Running" -> "run"
    [] state = "Complete" -> "done"
OnceCall_no_wait(state) ==
  CASE state = "Incomplete" -> "run"
    [] state = "Running" -> "done"
    [] state = "Complete" -> "done"
OnceCall_lost_wakeup(state) ==
  CASE state = "Incomplete" -> "run"
    [] state = "Running" -> "wait"
    [] state = "Complete" -> "wait"
OnceCall(state) ==
  CASE state = "Incomplete" -> "run"
    [] state = "Running" -> "wait"
    [] state = "Complete" -> "done"

\* lib.rs:74      OnceLock::get: the fast path of get_or_init
IsInitialized(cell) == cell.state = "Complete"

\* lib.rs:74      *INIT.get_or_init(..): the values a copy out of the cell can
\* be; a cell that is not complete holds no value, and a read of it would
\* yield arbitrary bits
ReadCell(cell) == IF cell.state = "Complete" THEN {cell.value} ELSE Probe

\* lib.rs:87-88   #[cfg(windows)] let _ = rustix::net::wsa_startup();
AfterStart(win) == IF win THEN "wsa_startup" ELSE "socket4"

\* lib.rs:88      let _ = wsa_startup(): where probe_in goes after the call
AfterWsaStartup_bail(ok) == IF ok THEN "socket4" ELSE "return"
AfterWsaStartup(ok) == "socket4"

\* lib.rs:97      the end of the IPv4 block drops ipv4_sock: an Ok descriptor
\* is closed
DropIpv4_kept(o, s) == o
DropIpv4(o, s) == IF s.ok THEN o \ {s.fd} ELSE o

\* lib.rs:105     let _ = set_ipv6_v6only(..): where a trial goes after the call
AfterSetOpt_abort(ok) == IF ok THEN "bind" ELSE "next"
AfterSetOpt(ok) == "bind"

\* lib.rs:100, 131-134   the end of one iteration of the for loop: the next
\* trial, or past the loop the cfg(windows) cleanup, or the return
AfterTrial_no_cleanup(k, win) ==
  IF k < Len(V6_PROBES) THEN "socket6" ELSE "return"
AfterTrial(k, win) ==
  IF k < Len(V6_PROBES) THEN "socket6"
  ELSE IF win THEN "wsa_cleanup" ELSE "return"

\* lib.rs:121     bind(sock, ..) takes the OwnedFd by value: it is dropped,
\* and the descriptor closed, when bind returns, whatever bind's result
DropAfterBind_leak_on_err(o, fd, ok) == IF ok THEN o \ {fd} ELSE o
DropAfterBind(o, fd, ok) == o \ {fd}

(* ------------------------------------------------------------------ state *)

VARIABLES
  windows,      \* cfg(windows): fixed when the process is built
  INIT,         \* lib.rs:11 static INIT: OnceLock<Probe>, [state, value]
  pc,           \* each thread's position
  fn,           \* the public function a thread is in
  caps,         \* probe_in's local `caps`
  ipv4_sock,    \* probe_in's local `ipv4_sock`: [ok, fd]
  i,            \* index of the for loop over V6_PROBES (0 outside the loop)
  sock,         \* probe_in's local `sock`: [ok, fd]
  bind_result,  \* probe_in's local `bind_result`
  run,          \* which execution of probe_in a thread is in (0: none)
  open,         \* descriptors of sockets that are open, with their owner
  nextFd,       \* descriptors handed out so far
  log,          \* history: the system calls made, in order
  execs,        \* history: number of times probe_in was entered
  results,      \* history: the records probe_in returned
  returned,     \* history: the records probe() returned to its callers
  answers,      \* history: <<function, value>> for every public call's return
  calls         \* public-function calls started so far

vars == <<windows, INIT, pc, fn, caps, ipv4_sock, i, sock, bind_result,
          run, open, nextFd, log, execs, results, returned, answers, calls>>

locals == <<caps, ipv4_sock, i, sock, bind_result, run>>
kernel == <<open, nextFd, log>>
history == <<execs, results, returned, answers>>

\* one system call in the log, made by execution `e` of probe_in
Event(e, op, fam, k, ok, fd, v6only, addr) ==
  [run |-> e, op |-> op, family |-> fam, trial |-> k, ok |-> ok, fd |-> fd,
   v6only |-> v6only, addr |-> addr]

SocketOps == {"socket", "setsockopt", "bind", "close"}

\* the positions that lie inside probe_in
InProbeIn == {"start", "wsa_startup", "socket4", "check4", "drop4", "socket6",
              "setopt", "bind", "check_bind", "next", "wsa_cleanup", "return"}

Init ==
  /\ windows \in BOOLEAN
  /\ INIT = [state |-> "Incomplete", value |-> None]
  /\ pc = [t \in Threads |-> "idle"]
  /\ fn = [t \in Threads |-> None]
  /\ caps = [t \in Threads |-> AllFalse]
  /\ ipv4_sock = [t \in Threads |-> NoSocket]
  /\ i = [t \in Threads |-> 0]
  /\ sock = [t \in Threads |-> NoSocket]
  /\ bind_result = [t \in Threads |-> FALSE]
  /\ run = [t \in Threads |-> 0]
  /\ open = {}
  /\ nextFd = 0
  /\ log = <<>>
  /\ execs = 0
  /\ results = {}
  /\ returned = {}
  /\ answers = {}
  /\ calls = 0

(* ----------------------------------------------------- the public surface *)

\* lib.rs:19-32, 73   a thread enters one of the public functions
Call(t) ==
  /\ pc[t] = "idle"
  /\ calls < MaxCalls
  /\ \E f \in Functions : fn' = [fn EXCEPT ![t] = f]
  /\ calls' = calls + 1
  /\ pc' = [pc EXCEPT ![t] = "get"]
  /\ UNCHANGED <<windows, INIT, locals, kernel, history>>

\* lib.rs:74, 20, 25, 31   probe() returns the copy `p` of the cell's value,
\* and the public function the thread is in returns its part of it
Deliver(t, p) ==
  /\ returned' = returned \cup {p}
  /\ answers' = answers \cup {<<fn[t], Project(fn[t], p)>>}
  /\ fn' = [fn EXCEPT ![t] = None]
  /\ pc' = [pc EXCEPT ![t] = "idle"]

\* lib.rs:74      get_or_init, fast path: the cell is initialized, copy it out
GetFast(t) ==
  /\ pc[t] = "get"
  /\ IsInitialized(INIT)
  /\ \E p \in ReadCell(INIT) : Deliver(t, p)
  /\ UNCHANGED <<windows, INIT, locals, kernel, execs, results, calls>>

\* lib.rs:74      get_or_init, slow path: go to the cell's Once
GetSlow(t) ==
  /\ pc[t] = "get"
  /\ ~IsInitialized(INIT)
  /\ pc' = [pc EXCEPT ![t] = "once"]
  /\ UNCHANGED <<windows, INIT, fn, locals, kernel, history, calls>>

\* lib.rs:74      the Once: the first caller runs probe_in
OnceRun(t) ==
  /\ pc[t] = "once"
  /\ OnceCall(INIT.state) = "run"
  /\ INIT' = [INIT EXCEPT !.state = "Running"]
  /\ execs' = execs + 1
  /\ run' = [run EXCEPT ![t] = execs + 1]
  /\ pc' = [pc EXCEPT ![t] = "start"]
  /\ UNCHANGED <<windows, fn, caps, ipv4_sock, i, sock, bind_result, kernel,
                 results, returned, answers, calls>>

\* lib.rs:74      the Once: a caller that finds it completed copies the value
\* (a caller that finds it running is blocked: no step)
OnceDone(t) ==
  /\ pc[t] = "once"
  /\ OnceCall(INIT.state) = "done"
  /\ \E p \in ReadCell(INIT) : Deliver(t, p)
  /\ UNCHANGED <<windows, INIT, locals, kernel, execs, results, calls>>

(* --------------------------------------------------------------- probe_in *)

\* every probe_in step leaves these alone
ProbeInFrame == UNCHANGED <<windows, fn, returned, answers, execs, calls>>

\* lib.rs:81-85   let mut caps = Probe { false, false, false }
Start(t) ==
  /\ pc[t] = "start"
  /\ caps' = [caps EXCEPT ![t] = AllFalse]
  /\ pc' = [pc EXCEPT ![t] = AfterStart(windows)]
  /\ UNCHANGED <<INIT, run, ipv4_sock, i, sock, bind_result, kernel, results>>
  /\ ProbeInFrame

\* lib.rs:87-88   let _ = rustix::net::wsa_startup(): the result is dropped
WsaStartup(t) ==
  /\ pc[t] = "wsa_startup"
  /\ \E ok \in BOOLEAN :
       /\ log' = Append(log, Event(run[t], "wsa_startup", None, 0, ok, None,
                                   FALSE, NoAddr))
       /\ pc' = [pc EXCEPT ![t] = AfterWsaStartup(ok)]
  /\ UNCHANGED <<INIT, locals, open, nextFd, results>>
  /\ ProbeInFrame

\* lib.rs:92      let ipv4_sock = socket(INET, STREAM, Some(TCP))
Socket4(t) ==
  /\ pc[t] = "socket4"
  /\ \E ok \in BOOLEAN :
       IF ok
         THEN /\ ipv4_sock' = [ipv4_sock EXCEPT ![t] = [ok |-> TRUE, fd |-> nextFd]]
              /\ open' = open \cup {nextFd}
              /\ nextFd' = nextFd + 1
              /\ log' = Append(log, Event(run[t], "socket", "INET", 0, TRUE,
                                          nextFd, FALSE, NoAddr))
         ELSE /\ ipv4_sock' = [ipv4_sock EXCEPT ![t] = NoSocket]
              /\ log' = Append(log, Event(run[t], "socket", "INET", 0, FALSE,
                                          None, FALSE, NoAddr))
              /\ UNCHANGED <<open, nextFd>>
  /\ pc' = [pc EXCEPT ![t] = "check4"]
  /\ UNCHANGED <<INIT, run, caps, i, sock, bind_result, results>>
  /\ ProbeInFrame

\* lib.rs:94-96   if ipv4_sock.is_ok() { caps.ipv4 = true; }
Check4(t) ==
  /\ pc[t] = "check4"
  /\ caps' = [caps EXCEPT ![t] = CheckIpv4(caps[t], ipv4_sock[t].ok)]
  /\ pc' = [pc EXCEPT ![t] = "drop4"]
  /\ UNCHANGED <<INIT, run, ipv4_sock, i, sock, bind_result, kernel, results>>
  /\ ProbeInFrame

\* lib.rs:97      end of the block: ipv4_sock is dropped, an Ok descriptor closed;
\* lib.rs:100     the for loop starts at the first entry of V6_PROBES
Drop4(t) ==
  /\ pc[t] = "drop4"
  /\ open' = DropIpv4(open, ipv4_sock[t])
  /\ log' = IF open' = open THEN log
            ELSE Append(log, Event(run[t], "close", None, 0, TRUE,
                                   ipv4_sock[t].fd, FALSE, NoAddr))
  /\ ipv4_sock' = [ipv4_sock EXCEPT ![t] = NoSocket]
  /\ i' = [i EXCEPT ![t] = 1]
  /\ pc' = [pc EXCEPT ![t] = "socket6"]
  /\ UNCHANGED <<INIT, run, caps, sock, bind_result, nextFd, results>>
  /\ ProbeInFrame

\* lib.rs:101-103 let sock = socket(INET6, STREAM, Some(TCP)); if let Ok(sock)
Socket6(t) ==
  /\ pc[t] = "socket6"
  /\ \E ok \in BOOLEAN :
       /\ IF ok
            THEN /\ sock' = [sock EXCEPT ![t] = [ok |-> TRUE, fd |-> nextFd]]
                 /\ open' = open \cup {nextFd}
                 /\ nextFd' = nextFd + 1
                 /\ log' = Append(log, Event(run[t], "socket", "INET6", i[t], TRUE,
                                             nextFd, FALSE, NoAddr))
            ELSE /\ sock' = [sock EXCEPT ![t] = NoSocket]
                 /\ log' = Append(log, Event(run[t], "socket", "INET6", i[t], FALSE,
                                             None, FALSE, NoAddr))
                 /\ UNCHANGED <<open, nextFd>>
       /\ pc' = [pc EXCEPT ![t] = AfterSocket6(ok)]
  /\ UNCHANGED <<INIT, run, caps, ipv4_sock, i, bind_result, results>>
  /\ ProbeInFrame

\* lib.rs:105     let _ = set_ipv6_v6only(&sock, v6_only): the result is dropped
SetOpt(t) ==
  /\ pc[t] = "setopt"
  /\ \E ok \in BOOLEAN :
       /\ log' = Append(log, Event(run[t], "setsockopt", None, i[t], ok, sock[t].fd,
                                   V6_PROBES[i[t]][2], NoAddr))
       /\ pc' = [pc EXCEPT ![t] = AfterSetOpt(ok)]
  /\ UNCHANGED <<INIT, locals, open, nextFd, results>>
  /\ ProbeInFrame

\* lib.rs:108-121 let bind_result = bind(sock, &addr.into()): sock moves into
\* the call and is closed when it returns
Bind(t) ==
  /\ pc[t] = "bind"
  /\ \E ok \in BOOLEAN :
       /\ bind_result' = [bind_result EXCEPT ![t] = ok]
       /\ open' = DropAfterBind(open, sock[t].fd, ok)
       /\ log' = log \o
            << Event(run[t], "bind", None, i[t], ok, sock[t].fd, FALSE,
                     BindAddr(V6_PROBES[i[t]][1])) >> \o
            (IF open' = open THEN <<>>
             ELSE << Event(run[t], "close", None, i[t], TRUE, sock[t].fd, FALSE, NoAddr) >>)
  /\ sock' = [sock EXCEPT ![t] = NoSocket]
  /\ pc' = [pc EXCEPT ![t] = "check_bind"]
  /\ UNCHANGED <<INIT, run, caps, ipv4_sock, i, nextFd, results>>
  /\ ProbeInFrame

\* lib.rs:123-129 if bind_result.is_ok() { set the trial's flag }
CheckBind_(t) ==
  /\ pc[t] = "check_bind"
  /\ caps' = [caps EXCEPT ![t] = CheckBind(caps[t], V6_PROBES[i[t]][1], bind_result[t])]
  /\ pc' = [pc EXCEPT ![t] = "next"]
  /\ UNCHANGED <<INIT, run, ipv4_sock, i, sock, bind_result, kernel, results>>
  /\ ProbeInFrame

\* lib.rs:100, 131   the end of one iteration of the loop
NextTrial(t) ==
  /\ pc[t] = "next"
  /\ pc' = [pc EXCEPT ![t] = AfterTrial(i[t], windows)]
  /\ i' = [i EXCEPT ![t] = IF i[t] < Len(V6_PROBES) THEN i[t] + 1 ELSE 0]
  /\ sock' = [sock EXCEPT ![t] = NoSocket]
  /\ bind_result' = [bind_result EXCEPT ![t] = FALSE]
  /\ UNCHANGED <<INIT, run, caps, ipv4_sock, kernel, results>>
  /\ ProbeInFrame

\* lib.rs:133-134 let _ = rustix::net::wsa_cleanup(): the result is dropped
WsaCleanup(t) ==
  /\ pc[t] = "wsa_cleanup"
  /\ \E ok \in BOOLEAN :
       log' = Append(log, Event(run[t], "wsa_cleanup", None, 0, ok, None, FALSE, NoAddr))
  /\ pc' = [pc EXCEPT ![t] = "return"]
  /\ UNCHANGED <<INIT, locals, open, nextFd, results>>
  /\ ProbeInFrame

\* lib.rs:136, 74 probe_in returns caps; the Once stores it in INIT and
\* completes; get_or_init copies the stored value out
ProbeInReturn(t) ==
  /\ pc[t] = "return"
  /\ results' = results \cup {caps[t]}
  /\ INIT' = [state |-> "Complete", value |-> caps[t]]
  /\ \E p \in ReadCell(INIT') : Deliver(t, p)
  /\ caps' = [caps EXCEPT ![t] = AllFalse]
  /\ run' = [run EXCEPT ![t] = 0]
  /\ UNCHANGED <<windows, ipv4_sock, i, sock, bind_result, kernel, execs, calls>>

Next ==
  \E t \in Threads :
    \/ Call(t)
    \/ GetFast(t)
    \/ GetSlow(t)
    \/ OnceRun(t)
    \/ OnceDone(t)
    \/ Start(t)
    \/ WsaStartup(t)
    \/ Socket4(t)
    \/ Check4(t)
    \/ Drop4(t)
    \/ Socket6(t)
    \/ SetOpt(t)
    \/ Bind(t)
    \/ CheckBind_(t)
    \/ NextTrial(t)
    \/ WsaCleanup(t)
    \/ ProbeInReturn(t)

Spec == Init /\ [][Next]_vars

(* ------------------------------------------------- reading the history *)

\* the system calls of execution e of probe_in, in order
LogOf(e) == SelectSeq(log, LAMBDA x : x.run = e)

\* the events of one operation of one trial (trial 0: outside the trials)
Events(op, k) == {n \in 1..Len(log) : log[n].op = op /\ log[n].trial = k}

Succeeded(op, k) == \E n \in Events(op, k) : log[n].ok
Failed(op, k) == \E n \in Events(op, k) : ~log[n].ok

Running(t) == pc[t] \in InProbeIn

AllIdle == \A t \in Threads : pc[t] = "idle"

(* ------------------------------------------------------------------ C1 *)

\* C1: every call to probe() returns the same record: INIT becomes complete
\* at most once (a complete INIT is never written again, so its three fields
\* never change), and the records probe() has returned are one and the same,
\* whatever outcomes the environment would give to later system calls.
C1_ProbeAlwaysSameRecord ==
  [][ /\ (INIT.state = "Complete" => INIT' = INIT)
      /\ Cardinality(returned') <= 1
      /\ (INIT'.state = "Complete" => returned' \subseteq {INIT'.value}) ]_vars

\* two calls of probe() have returned, the second from the cache
C1_Witness ==
  /\ AllIdle
  /\ calls >= 2
  /\ \E r \in Probe : answers = {<<"probe", r>>} /\ INIT.value = r

(* ------------------------------------------------------------------ C2 *)

\* C2: probe_in executes exactly once per process once a query is made: it
\* is entered at most once, every answered call was preceded by its one
\* execution, at most one thread is inside it, and once INIT is complete no
\* step makes a system call or opens or closes a socket.
C2_ProbeInRunsOnce ==
  [][ /\ execs' <= 1
      /\ (answers' # {} => execs' = 1)
      /\ Cardinality({t \in Threads : Running(t)'}) <= 1
      /\ (INIT.state = "Complete" =>
            /\ log' = log
            /\ open' = open
            /\ \A t \in Threads : ~Running(t)') ]_vars

\* a thread has arrived at the Once while another thread is inside probe_in
C2_Witness ==
  \E t1, t2 \in Threads :
    /\ t1 # t2
    /\ Running(t1)
    /\ Len(log) > 0
    /\ pc[t2] = "once"

(* ------------------------------------------------------------------ C3 *)

\* C3: under every interleaving a caller is only ever returned a record that
\* a completed execution of probe_in produced and that INIT stores; nothing
\* is returned while INIT is not complete, and no two callers are returned
\* different records.
C3_NoPartialRecord ==
  /\ returned \subseteq results
  /\ Cardinality(returned) <= 1
  /\ (INIT.state # "Complete" => returned = {} /\ answers = {})
  /\ (INIT.state = "Complete" => returned \subseteq {INIT.value})

\* two threads were in their calls at the same time on first use: one has
\* been answered with a record that has a flag set, the other waits at the Once
C3_Witness ==
  \E t \in Threads :
    /\ pc[t] = "once"
    /\ INIT.state = "Complete"
    /\ INIT.value # AllFalse
    /\ returned = {INIT.value}

(* ------------------------------------------------------------------ C4 *)

\* C4: every answer of ipv4() is the ipv4 field of every record probe() has
\* returned, every answer of ipv6() its ipv6 field, every answer of
\* ipv4_mapped_ipv6() its ipv4_mapped_ipv6 field, and every answer of probe()
\* is that record; the same holds against the record INIT stores.
C4_QueriesAgreeWithProbe ==
  \A a \in answers :
    \A r \in returned \cup (IF INIT.state = "Complete" THEN {INIT.value} ELSE {}) :
      /\ a[1] = "probe" => a[2] = r
      /\ a[1] = "ipv4" => a[2] = r.ipv4
      /\ a[1] = "ipv6" => a[2] = r.ipv6
      /\ a[1] = "ipv4_mapped_ipv6" => a[2] = r.ipv4_mapped_ipv6

\* a query function and probe() have both answered, on a host where the
\* ipv6 and ipv4_mapped_ipv6 flags differ
C4_Witness ==
  /\ <<"ipv6", TRUE>> \in answers
  /\ \E r \in Probe : <<"probe", r>> \in answers /\ ~r.ipv4_mapped_ipv6 /\ r.ipv6

(* ------------------------------------------------------------------ C5 *)

\* the positions the program has
Positions == {"idle", "get", "once"} \cup InProbeIn

\* the step of probe_in a thread is to take next
ProbeInStep(t) ==
  \/ Start(t) \/ WsaStartup(t) \/ Socket4(t) \/ Check4(t) \/ Drop4(t)
  \/ Socket6(t) \/ SetOpt(t) \/ Bind(t) \/ CheckBind_(t) \/ NextTrial(t)
  \/ WsaCleanup(t) \/ ProbeInReturn(t)

\* C5: the public functions are infallible: whatever system calls fail, no
\* thread leaves the program's positions (no panic, no abort), a thread inside
\* probe_in always has its next step, probe() returns only records of three
\* booleans and the query functions only booleans.
C5_Infallible ==
  /\ \A t \in Threads : pc[t] \in Positions
  /\ \A t \in Threads : Running(t) => ENABLED ProbeInStep(t)
  /\ returned \subseteq Probe
  /\ \A a \in answers : a[1] # "probe" => a[2] \in BOOLEAN
  /\ \A a \in answers : a[1] = "probe" => a[2] \in Probe

\* a call has returned after an execution in which a socket creation, an
\* option setting, a bind, and on Windows the startup and the cleanup failed
C5_Witness ==
  /\ answers # {}
  /\ returned = {AllFalse}
  /\ Failed("socket", 0)
  /\ Failed("setsockopt", 1)
  /\ Failed("bind", 1)
  /\ Failed("socket", 2)
  /\ Failed("wsa_startup", 0)
  /\ Failed("wsa_cleanup", 0)

(* ------------------------------------------------------------------ C6 *)

\* the segments of ::1, and of the IPv4-mapped address ::ffff:a.b.c.d
V6Loopback == <<0, 0, 0, 0, 0, 0, 0, 1>>
V4Mapped(a, b, c, d) == <<0, 0, 0, 0, 0, 65535, a * 256 + b, c * 256 + d>>

\* a bind of trial k went to address ip, port 0, flow and scope zero
BindsTo(n, ip) ==
  /\ log[n].addr.ip = ip
  /\ log[n].addr.port = 0
  /\ log[n].addr.flowinfo = 0
  /\ log[n].addr.scope_id = 0

\* the descriptor the socket() of trial k returned
CreatedIn(k) == {log[n].fd : n \in {m \in Events("socket", k) : log[m].ok}}

\* C6: trial A (the first) sets IPV6_V6ONLY to true and binds to [::1]:0,
\* trial B (the second) sets it to false and binds to [::ffff:127.0.0.1]:0,
\* each on the socket the trial created; in the stored record ipv6 is true
\* iff trial A's socket creation and bind succeeded, and ipv4_mapped_ipv6 is
\* true iff trial B's socket creation and bind succeeded.
C6_TrialTable ==
  /\ \A n \in Events("setsockopt", 1) : log[n].v6only = TRUE /\ log[n].fd \in CreatedIn(1)
  /\ \A n \in Events("setsockopt", 2) : log[n].v6only = FALSE /\ log[n].fd \in CreatedIn(2)
  /\ \A n \in Events("bind", 1) : BindsTo(n, V6Loopback) /\ log[n].fd \in CreatedIn(1)
  /\ \A n \in Events("bind", 2) : BindsTo(n, V4Mapped(127, 0, 0, 1)) /\ log[n].fd \in CreatedIn(2)
  /\ \A n \in Events("socket", 1) \cup Events("socket", 2) : log[n].family = "INET6"
  /\ INIT.state = "Complete" =>
       /\ INIT.value.ipv6 <=> (Succeeded("socket", 1) /\ Succeeded("bind", 1))
       /\ INIT.value.ipv4_mapped_ipv6 <=> (Succeeded("socket", 2) /\ Succeeded("bind", 2))

\* both trials set their option and bound with success, and the record is stored
C6_Witness ==
  /\ INIT.state = "Complete"
  /\ INIT.value.ipv6 /\ INIT.value.ipv4_mapped_ipv6
  /\ Events("setsockopt", 1) # {} /\ Events("setsockopt", 2) # {}
  /\ Succeeded("bind", 1) /\ Succeeded("bind", 2)

(* ------------------------------------------------------------------ C7 *)

\* C7: in the stored record and in every returned record, ipv4 is true iff the
\* creation of the AF_INET socket succeeded, whatever happened to the IPv6
\* sockets; that creation is the only system call of the IPv4 check besides
\* the release of the socket.
C7_Ipv4IffSocketCreated ==
  /\ \A n \in Events("socket", 0) : log[n].family = "INET"
  /\ INIT.state = "Complete" =>
       (INIT.value.ipv4 <=> Succeeded("socket", 0))
  /\ \A r \in returned : r.ipv4 <=> Succeeded("socket", 0)

\* the IPv4 creation failed while both IPv6 trials succeeded
C7_Witness ==
  /\ INIT.state = "Complete"
  /\ Failed("socket", 0)
  /\ INIT.value = [ipv4 |-> FALSE, ipv6 |-> TRUE, ipv4_mapped_ipv6 |-> TRUE]
  /\ returned # {}

(* ------------------------------------------------------------------ C8 *)

\* the positions of one iteration of the loop over V6_PROBES
InTrial == {"socket6", "setopt", "bind", "check_bind", "next"}

\* what trial k did is decided by trial k alone: one socket(); if it failed
\* nothing more, else one setsockopt and one bind
TrialShape(k) ==
  /\ Cardinality(Events("socket", k)) = 1
  /\ IF Succeeded("socket", k)
       THEN /\ Cardinality(Events("setsockopt", k)) = 1
            /\ Cardinality(Events("bind", k)) = 1
       ELSE /\ Events("setsockopt", k) = {}
            /\ Events("bind", k) = {}

\* C8: a step of trial A changes neither ipv4_mapped_ipv6 nor ipv4 of caps, a
\* step of trial B changes neither ipv6 nor ipv4; and when the record is
\* stored, each trial has performed the operations that its own socket()
\* outcome decides, with its flag equal to its own bind's success, whatever
\* the other trial's outcomes were.
C8_TrialsIndependent ==
  [][ /\ \A t \in Threads :
           pc[t] \in InTrial =>
             /\ caps'[t].ipv4 = caps[t].ipv4
             /\ i[t] = 1 => caps'[t].ipv4_mapped_ipv6 = caps[t].ipv4_mapped_ipv6
             /\ i[t] = 2 => caps'[t].ipv6 = caps[t].ipv6
      /\ INIT'.state = "Complete" =>
           /\ TrialShape(1)' /\ TrialShape(2)'
           /\ INIT'.value.ipv6 = Succeeded("bind", 1)'
           /\ INIT'.value.ipv4_mapped_ipv6 = Succeeded("bind", 2)' ]_vars

\* trial A's bind failed and trial B still ran and succeeded
C8_Witness ==
  /\ INIT.state = "Complete"
  /\ Failed("bind", 1)
  /\ Succeeded("bind", 2)
  /\ ~INIT.value.ipv6
  /\ INIT.value.ipv4_mapped_ipv6

(* ------------------------------------------------------------------ C9 *)

\* the descriptors a thread holds in probe_in's locals
Held(t) ==
  (IF ipv4_sock[t].ok THEN {ipv4_sock[t].fd} ELSE {}) \cup
  (IF sock[t].ok THEN {sock[t].fd} ELSE {})

\* C9: no socket outlives the probe: an open socket is always held by a
\* thread that is inside probe_in; when no thread is inside probe_in, and
\* whenever INIT is complete, no socket is open and every socket that was
\* created has been closed, whether its bind succeeded or failed.
C9_NoSocketLeak ==
  /\ open \subseteq UNION {Held(t) : t \in {u \in Threads : Running(u)}}
  /\ (INIT.state = "Complete" \/ \A t \in Threads : ~Running(t)) =>
       /\ open = {}
       /\ \A n \in 1..Len(log) :
            (log[n].op = "socket" /\ log[n].ok) =>
              \E m \in (n + 1)..Len(log) : log[m].op = "close" /\ log[m].fd = log[n].fd

\* three sockets were created, one bind failed and one succeeded, calls have
\* returned, and nothing is open
C9_Witness ==
  /\ INIT.state = "Complete"
  /\ AllIdle
  /\ calls >= 2
  /\ nextFd = 3
  /\ Failed("bind", 1)
  /\ Succeeded("bind", 2)
  /\ open = {}

(* ----------------------------------------------------------------- C10 *)

\* the positions of probe_in after the startup call and before the cleanup call
Bracketed == {"socket4", "check4", "drop4"} \cup InTrial

CountOf(L, op) == Cardinality({n \in 1..Len(L) : L[n].op = op})

\* C10: on Windows every execution of probe_in calls wsa_startup exactly once,
\* before its first socket operation, and wsa_cleanup exactly once, after its
\* last: the startup is the first entry of the execution's log, nothing
\* follows the cleanup, and neither is repeated per trial.
C10_WsaBracket ==
  windows =>
    \A e \in 1..execs :
      LET L == LogOf(e)
          over == \A t \in Threads : run[t] # e
      IN /\ CountOf(L, "wsa_startup") <= 1
         /\ CountOf(L, "wsa_cleanup") <= 1
         /\ \A n \in 1..Len(L) :
              L[n].op \in SocketOps =>
                /\ L[1].op = "wsa_startup"
                /\ \A m \in 1..n : L[m].op # "wsa_cleanup"
         /\ \A t \in Threads :
              (run[t] = e /\ pc[t] \in Bracketed) =>
                (CountOf(L, "wsa_startup") = 1 /\ CountOf(L, "wsa_cleanup") = 0)
         /\ over =>
              /\ CountOf(L, "wsa_startup") = 1
              /\ CountOf(L, "wsa_cleanup") = 1
              /\ L[1].op = "wsa_startup"
              /\ L[Len(L)].op = "wsa_cleanup"
              /\ CountOf(L, "socket") = 3

\* a Windows execution in which the IPv4 creation and both trials failed has
\* returned
C10_Witness ==
  /\ windows
  /\ INIT.state = "Complete"
  /\ INIT.value = AllFalse
  /\ Failed("socket", 0)
  /\ Failed("bind", 1)
  /\ Failed("socket", 2)
  /\ CountOf(log, "wsa_cleanup") = 1

(* ----------------------------------------------------------------- C11 *)

\* the steps a thread takes once it is inside a public function
ThreadStep(t) ==
  \/ GetFast(t) \/ GetSlow(t) \/ OnceRun(t) \/ OnceDone(t) \/ ProbeInStep(t)

\* the scheduler runs every thread that can take a step; a thread is not
\* obliged to make another call
FairSpec == Spec /\ \A t \in Threads : WF_vars(ThreadStep(t))

\* a thread inside a call, outside probe_in, that needs no other thread to
\* go on: its next step returns the cached record
ServedFromCache(t) == ENABLED (GetFast(t) \/ OnceDone(t))

\* C11: under fair scheduling every call of a public function returns, for
\* any number of concurrent callers; a caller that arrived while another
\* thread runs probe_in is not blocked forever; and once INIT is complete a
\* caller's own next step returns the cached record, whatever the other
\* threads do.
C11_EveryCallReturns ==
  /\ [](\A t \in Threads :
          (INIT.state = "Complete" /\ pc[t] \in {"get", "once"}) => ServedFromCache(t))
  /\ \A t \in Threads : (pc[t] # "idle") ~> (pc[t] = "idle")

\* a caller is blocked at the Once while another thread is in a trial of
\* probe_in
C11_Witness ==
  \E t1, t2 \in Threads :
    /\ pc[t1] = "once"
    /\ pc[t2] \in InTrial
    /\ ~ENABLED ThreadStep(t1)

(* ----------------------------------------------------------------- C12 *)

\* the trials
Trials == 1..Len(V6_PROBES)

\* the flag of trial k in record r
FlagOf(r, k) == IF k = 1 THEN r.ipv6 ELSE r.ipv4_mapped_ipv6

\* C12: setting IPV6_V6ONLY is best-effort: after a failed setsockopt of a
\* trial the next system call is the bind of that trial on the same socket
\* (or the thread stands right before that bind), and in the stored record
\* the trial's flag is that bind's outcome.
C12_SetOptBestEffort ==
  \A k \in Trials :
    \A n \in Events("setsockopt", k) :
      ~log[n].ok =>
        IF n = Len(log)
          THEN \E t \in Threads :
                 pc[t] = "bind" /\ i[t] = k /\ sock[t].ok /\ sock[t].fd = log[n].fd
          ELSE /\ log[n + 1].op = "bind"
               /\ log[n + 1].trial = k
               /\ log[n + 1].fd = log[n].fd
               /\ INIT.state = "Complete" => FlagOf(INIT.value, k) = log[n + 1].ok

\* the option could not be set in either trial; trial A's bind succeeded and
\* its flag is true, trial B's bind failed and its flag is false
C12_Witness ==
  /\ INIT.state = "Complete"
  /\ Failed("setsockopt", 1) /\ Succeeded("bind", 1) /\ INIT.value.ipv6
  /\ Failed("setsockopt", 2) /\ Failed("bind", 2) /\ ~INIT.value.ipv4_mapped_ipv6

(* ----------------------------------------------------------------- C13 *)

\* the first system call after entry n of the log that is not a close
NextCall(n) ==
  IF n + 1 <= Len(log) /\ log[n + 1].op = "close" THEN n + 2 ELSE n + 1

\* the procedure goes on after entry n with the socket() of trial k: that is
\* the next call in the log, or a thread stands right before it
GoesOnWith(n, k) ==
  IF NextCall(n) <= Len(log)
    THEN log[NextCall(n)].op = "socket" /\ log[NextCall(n)].trial = k
    ELSE \E t \in Threads : pc[t] \in {"check4", "drop4", "check_bind", "next", "socket6"}

\* C13: a trial whose socket creation failed sets no option, binds nothing
\* and leaves its flag false; the procedure continues: a failed IPv4 creation
\* is followed by trial A's socket(), a failed creation or bind in trial A by
\* trial B's socket(), and a stored record means both trials were entered.
C13_FailureSkipsAndContinues ==
  /\ \A k \in Trials :
       Failed("socket", k) =>
         /\ Events("setsockopt", k) = {}
         /\ Events("bind", k) = {}
         /\ \A r \in results : ~FlagOf(r, k)
  /\ \A n \in Events("socket", 0) : ~log[n].ok => GoesOnWith(n, 1)
  /\ \A n \in Events("socket", 1) \cup Events("bind", 1) :
       ~log[n].ok => GoesOnWith(n, 2)
  /\ INIT.state = "Complete" =>
       \A k \in Trials : Cardinality(Events("socket", k)) = 1

\* the IPv4 creation and trial A's creation failed, and trial B ran its bind
C13_Witness ==
  /\ INIT.state = "Complete"
  /\ Failed("socket", 0)
  /\ Failed("socket", 1)
  /\ Events("bind", 2) # {}
  /\ ~INIT.value.ipv6

(* ----------------------------------------------------------------- C14 *)

\* the descriptors of the AF_INET sockets
Ipv4Fds == {log[n].fd : n \in {m \in 1..Len(log) : log[m].family = "INET" /\ log[m].ok}}

\* entries n of the log that belong to trial A: its option value is true,
\* its bind goes to ::1
OfTrialA(n) ==
  \/ log[n].op = "setsockopt" /\ log[n].v6only
  \/ log[n].op = "bind" /\ log[n].addr.ip = V6Loopback

OfTrialB(n) ==
  \/ log[n].op = "setsockopt" /\ ~log[n].v6only
  \/ log[n].op = "bind" /\ log[n].addr.ip = V4Mapped(127, 0, 0, 1)

\* C14: probe_in runs in the fixed order: caps is all false until the IPv4
\* check, the AF_INET socket() comes before every AF_INET6 socket(), and
\* every call of trial A before every call of trial B; on the AF_INET socket
\* no option is set and no bind is made, and it is closed before the first
\* AF_INET6 socket is created.
C14_FixedOrder ==
  LET N == 1..Len(log)
      v4 == {n \in N : log[n].family = "INET"}
      v6 == {n \in N : log[n].family = "INET6"}
      inA == {n \in N : OfTrialA(n)}
      inB == {n \in N : OfTrialB(n)}
      closes == {n \in N : log[n].op = "close"}
  IN /\ \A t \in Threads : pc[t] \in {"start", "wsa_startup", "socket4", "check4"} =>
          (caps[t] = AllFalse /\ v6 = {})
     /\ \A m \in v4 : \A n \in v6 : m < n
     /\ \A m \in inA : \A n \in inB : m < n
     /\ \A n \in 1..(Len(log) - 1) :
          (log[n].op \in SocketOps /\ log[n + 1].op \in SocketOps) =>
            log[n].trial <= log[n + 1].trial
     /\ \A n \in inA \cup inB : log[n].fd \notin Ipv4Fds
     /\ v6 # {} => v4 # {}
     /\ \A n \in v6 : \A fd \in Ipv4Fds :
          \E m \in closes : m < n /\ log[m].fd = fd

\* the IPv4 socket was created, and both trials set their option and bound
C14_Witness ==
  /\ INIT.state = "Complete"
  /\ Ipv4Fds # {}
  /\ \E m, n \in 1..Len(log) :
       /\ log[m].op = "bind" /\ OfTrialA(m)
       /\ log[n].op = "bind" /\ OfTrialB(n)

(* ----------------------------------------------------------------- C15 *)

\* C15: at most one socket of the probe is open at any point: the IPv4 socket
\* is released at the end of its check and a trial's socket when its bind
\* returns, so none is open when the next is created; one execution creates
\* at most three sockets, sets the option at most twice and binds at most
\* twice.
C15_OneSocketAtATime ==
  /\ Cardinality(open) <= 1
  /\ \A t \in Threads : pc[t] \in {"socket6", "check_bind", "next", "wsa_cleanup", "return"} =>
       Held(t) = {}
  /\ \A t \in Threads : pc[t] \in {"socket4", "socket6"} => open = {}
  /\ \A e \in 1..execs :
       /\ CountOf(LogOf(e), "socket") <= 3
       /\ CountOf(LogOf(e), "setsockopt") <= 2
       /\ CountOf(LogOf(e), "bind") <= 2

\* the third socket is open, after two were created and closed, and both
\* option settings were made
C15_Witness ==
  /\ Cardinality(open) = 1
  /\ nextFd = 3
  /\ CountOf(log, "close") = 2
  /\ CountOf(log, "setsockopt") = 2
  /\ \E t \in Threads : pc[t] = "bind"

(* ----------------------------------------------------------------- C16 *)

\* the record the socket() and bind outcomes in the log decide
Decided ==
  [ipv4 |-> Succeeded("socket", 0),
   ipv6 |-> Succeeded("bind", 1),
   ipv4_mapped_ipv6 |-> Succeeded("bind", 2)]

\* C16: on Windows the outcome of wsa_startup is ignored: after a failed
\* startup the next call is the IPv4 socket(), and when the record is stored
\* the IPv4 check and both trials have run and wsa_cleanup was called exactly
\* once; the stored record is the one the socket() and bind outcomes decide,
\* whatever wsa_startup and wsa_cleanup returned.
C16_WsaOutcomesIgnored ==
  windows =>
    /\ \A n \in Events("wsa_startup", 0) :
         ~log[n].ok =>
           IF n = Len(log)
             THEN \E t \in Threads : pc[t] = "socket4"
             ELSE log[n + 1].op = "socket" /\ log[n + 1].family = "INET"
    /\ INIT.state = "Complete" =>
         /\ Cardinality(Events("socket", 0)) = 1
         /\ \A k \in Trials : Cardinality(Events("socket", k)) = 1
         /\ CountOf(log, "wsa_cleanup") = 1
         /\ INIT.value = Decided
         /\ returned \subseteq {Decided}

\* startup and cleanup both failed, and the record shows all three
\* capabilities
C16_Witness ==
  /\ windows
  /\ INIT.state = "Complete"
  /\ Failed("wsa_startup", 0)
  /\ Failed("wsa_cleanup", 0)
  /\ INIT.value = [ipv4 |-> TRUE, ipv6 |-> TRUE, ipv4_mapped_ipv6 |-> TRUE]
  /\ returned # {}

====
